---- MODULE Spec2Model ----
(***************************************************************************)
(* A model of the codecrafters shell: the prompt loop and line editor of   *)
(* main.rs, the tokenizer of parser.rs, the builtins of builtins.rs and    *)
(* the command and pipeline execution of lib.rs.                           *)
(*                                                                         *)
(* Strings are sequences of one-character strings, so that trimming,       *)
(* splitting at '|', tokenizing and integer parsing are computed the way   *)
(* the code computes them.  Indices are 1-based here and 0-based in the    *)
(* source: stage i of the model is stage i-1 of the source, pipe k of the  *)
(* model (between stage k and stage k+1) is pipes[k-1] of the source.      *)
(***************************************************************************)
EXTENDS Integers, Sequences, FiniteSets, TLC

VARIABLES
  mpc,              \* position of main: "prompt", "keys", "collected", "pipeline", "ended"
  shell,            \* the shell process: running, or how and with what status it ended
  command_history,  \* main.rs: command_history
  buffer,           \* main.rs: buffer
  raw,              \* TRUE while the terminal is in raw mode (the RawTerminal guard lives)
  history_index,    \* main.rs: history_index (None or an index, 0-based as in the source)
  last_was_tab,     \* main.rs: last_was_tab
  last_tab_matches, \* main.rs: last_tab_matches
  last_tab_buffer,  \* main.rs: last_tab_buffer
  all_commands,     \* main.rs: all_commands of the last key, if it was a Tab (empty otherwise)
  term,             \* what the last key wrote to the terminal: its kind and its text
  lastKey,          \* the last key read in this line collection ("none" at its start)
  upRun,            \* number of Up keys read in a row, the first with the cursor unset
  runs,             \* the commands executed for the current line, with what each was handed
  diag,             \* the diagnostics written to standard error for the current line
  ppc,              \* position of execute_pipeline: "idle", "pipes", "launch", "closeall", "wait", "return"
  commands,         \* lib.rs: commands, the parsed stages
  pipes,            \* lib.rs: pipes.len(), the number of pipes created
  parentFds,        \* the pipe ends open in the shell process
  pids,             \* lib.rs: pids, the stages launched so far
  waited,           \* the number of waitpid calls made
  proc,             \* the stage processes: state, pipe ends held, exit code
  ret,              \* the ShellStatus execute_pipeline returns
  path_,            \* how execute_pipeline ended: "none", "pipefail", "launchfail", "reaped"
  call,             \* the function a library specification applied last ("none" before the first)
  callInput,        \* the argument of that application
  callOutput,       \* the results of the applications so far, in order
  parent,           \* the shell process: what its stdin and stdout are, its working directory
  reclosed          \* the pipe ends the shell called close on while it no longer held them

vars == <<mpc, shell, command_history, buffer, raw, history_index, last_was_tab,
          last_tab_matches, last_tab_buffer, all_commands, term, lastKey, upRun,
          runs, diag, ppc, commands, pipes, parentFds, pids, waited, proc, ret, path_,
          call, callInput, callOutput, parent, reclosed>>

editorVars == <<history_index, last_was_tab, last_tab_matches, last_tab_buffer,
                all_commands, term, lastKey, upRun>>

pipeVars == <<ppc, commands, pipes, parentFds, pids, waited, proc, ret, path_>>

pureVars == <<call, callInput, callOutput>>

osVars == <<parent, reclosed>>

(***************************************************************************)
(* Bounds of the model.                                                    *)
(***************************************************************************)
MaxStages == 3      \* longest pipeline explored by SpecPipeline
MaxHistory == 2     \* lines accepted in one session
MaxBuf == 2         \* characters typed into one line by the editor specification
MaxUps == 4         \* Up keys counted in one run by the editor specification
MaxLine == 4        \* characters of a line given to the tokenizer specification
MaxArgs == 3        \* arguments given to the redirection specification

\* Option<T>: None is the empty sequence, Some(v) the sequence of v alone.
None == <<>>

Some(v) == <<v>>

IsSome(o) == o # <<>>

Unwrap(o) == o[1]

Min(a, b) == IF a < b THEN a ELSE b

Max(a, b) == IF a < b THEN b ELSE a

(***************************************************************************)
(* Strings.                                                                *)
(***************************************************************************)
Whitespace == {" ", "\t", "\n", "\r"}

RECURSIVE TrimStart(_)
TrimStart(s) ==
  IF s # <<>> /\ Head(s) \in Whitespace THEN TrimStart(Tail(s)) ELSE s

RECURSIVE TrimEnd(_)
TrimEnd(s) ==
  IF s # <<>> /\ s[Len(s)] \in Whitespace
  THEN TrimEnd(SubSeq(s, 1, Len(s) - 1)) ELSE s

\* str::trim
Trim(s) == TrimEnd(TrimStart(s))

\* str::contains(ch)
Contains(s, ch) == \E i \in 1..Len(s) : s[i] = ch

\* str::starts_with
StartsWith(s, p) == Len(p) <= Len(s) /\ SubSeq(s, 1, Len(p)) = p

RECURSIVE SplitAcc(_, _, _, _)
SplitAcc(s, ch, cur, acc) ==
  IF s = <<>> THEN Append(acc, cur)
  ELSE IF Head(s) = ch THEN SplitAcc(Tail(s), ch, <<>>, Append(acc, cur))
  ELSE SplitAcc(Tail(s), ch, Append(cur, Head(s)), acc)

\* str::split(ch): the pieces between the occurrences of ch, empty pieces kept
Split(s, ch) == SplitAcc(s, ch, <<>>, <<>>)

RECURSIVE JoinWith(_, _)
JoinWith(ss, sep) ==
  IF ss = <<>> THEN <<>>
  ELSE IF Len(ss) = 1 THEN ss[1]
  ELSE ss[1] \o sep \o JoinWith(Tail(ss), sep)

(***************************************************************************)
(* parser.rs: tokenize.  Tok is the scanner at position i of s, in one of  *)
(* four places of the code: "skip" (between arguments, line 17), "arg"     *)
(* (the match of line 26), "sq" (inside '...', line 29) and "dq" (inside   *)
(* "...", line 38).                                                        *)
(***************************************************************************)
\* the escapes without the dollar sign
DqEscapableNoDollar == {"\\", "\"", "\n"}

DqEscapable == {"\\", "$", "\"", "\n"}

\* a push that loses the backslashes between single quotes
SqDropBackslash(arg, c) == IF c = "\\" THEN arg ELSE Append(arg, c)

\* line 33: arg.push(c) between single quotes
SqPush(arg, c) == Append(arg, c)

RECURSIVE Tok(_, _, _, _, _)
Tok(s, i, mode, arg, args) ==
  IF mode = "skip" THEN
    IF i > Len(s) THEN args
    ELSE IF s[i] \in Whitespace THEN Tok(s, i + 1, "skip", <<>>, args)
    ELSE Tok(s, i, "arg", <<>>, args)
  ELSE IF mode = "arg" THEN
    IF i > Len(s) THEN Append(args, arg)
    ELSE IF s[i] = "'" THEN Tok(s, i + 1, "sq", arg, args)
    ELSE IF s[i] = "\"" THEN Tok(s, i + 1, "dq", arg, args)
    ELSE IF s[i] = "\\" THEN
      IF i + 1 <= Len(s) THEN Tok(s, i + 2, "arg", Append(arg, s[i + 1]), args)
      ELSE Tok(s, i + 1, "arg", arg, args)
    ELSE IF s[i] \in Whitespace THEN Tok(s, i, "skip", <<>>, Append(args, arg))
    ELSE Tok(s, i + 1, "arg", Append(arg, s[i]), args)
  ELSE IF mode = "sq" THEN
    IF i > Len(s) THEN Tok(s, i, "arg", arg, args)
    ELSE IF s[i] = "'" THEN Tok(s, i + 1, "arg", arg, args)
    ELSE Tok(s, i + 1, "sq", SqPush(arg, s[i]), args)
  ELSE \* "dq"
    IF i > Len(s) THEN Tok(s, i, "arg", arg, args)
    ELSE IF s[i] = "\"" THEN Tok(s, i + 1, "arg", arg, args)
    ELSE IF s[i] = "\\" THEN
      IF i + 1 <= Len(s) /\ s[i + 1] \in DqEscapable
      THEN Tok(s, i + 2, "dq", Append(arg, s[i + 1]), args)
      ELSE Tok(s, i + 1, "dq", Append(arg, "\\"), args)
    ELSE Tok(s, i + 1, "dq", Append(arg, s[i]), args)

tokenize(input) == Tok(input, 1, "skip", <<>>, <<>>)

(***************************************************************************)
(* str::parse::<i32>: an optional sign, then one or more decimal digits,   *)
(* and a value that fits 32 bits; None otherwise.                          *)
(***************************************************************************)
Digits == <<"0", "1", "2", "3", "4", "5", "6", "7", "8", "9">>

IsDigit(c) == \E d \in 1..10 : Digits[d] = c

DigitVal(c) == (CHOOSE d \in 1..10 : Digits[d] = c) - 1

I32Max == 2147483647

I32Min == (0 - I32Max) - 1

\* The accumulation with checked_mul and checked_add (checked_sub for a negative
\* number) of core::num: None as soon as the value leaves the 32-bit range.
RECURSIVE ParseDigits(_, _, _)
ParseDigits(s, acc, neg) ==
  IF s = <<>> THEN Some(acc)
  ELSE LET d == DigitVal(Head(s))
           m == IF neg THEN 0 - acc ELSE acc
           limit == IF neg /\ d > 0 THEN (I32Max - (d - 1)) \div 10
                    ELSE (I32Max - d) \div 10
       IN IF m > limit THEN None
          ELSE ParseDigits(Tail(s), IF neg THEN acc * 10 - d ELSE acc * 10 + d, neg)

ParseI32(s) ==
  LET neg == s # <<>> /\ Head(s) = "-"
      signed == s # <<>> /\ Head(s) \in {"-", "+"}
      ds == IF signed THEN Tail(s) ELSE s
  IN IF ds = <<>> \/ \E k \in 1..Len(ds) : ~IsDigit(ds[k])
     THEN None
     ELSE ParseDigits(ds, 0, neg)

(***************************************************************************)
(* lib.rs: ShellStatus.  builtins.rs also builds LoadHistory (line 103),   *)
(* a variant lib.rs does not declare; main treats whatever is not Exit as  *)
(* Continue.                                                               *)
(***************************************************************************)
NoStatus == [kind |-> "none", code |-> 0]

Continue == [kind |-> "Continue", code |-> 0]

Exit(c) == [kind |-> "Exit", code |-> c]

LoadHistory == [kind |-> "LoadHistory", code |-> 0]

(***************************************************************************)
(* builtins.rs: Builtin and its FromStr.                                   *)
(***************************************************************************)
W_exit == <<"e", "x", "i", "t">>

W_echo == <<"e", "c", "h", "o">>

W_type == <<"t", "y", "p", "e">>

W_pwd == <<"p", "w", "d">>

W_cd == <<"c", "d">>

W_history == <<"h", "i", "s", "t", "o", "r", "y">>

BuiltinNames == {W_exit, W_echo, W_type, W_pwd, W_cd, W_history}

\* Builtin::from_str(s).is_ok()
IsBuiltin(s) == s \in BuiltinNames

(***************************************************************************)
(* The environment: the executables found on PATH.                         *)
(***************************************************************************)
W_cat == <<"c", "a", "t">>

W_wc == <<"w", "c">>

PathExecutables == {W_cat, W_wc}

\* get_executable_path(command).is_some()
get_executable_path(command) == command \in PathExecutables

(***************************************************************************)
(* builtins.rs: Builtin::execute.  fileOk says whether File::open succeeds *)
(* for history -r.  The result is the ShellStatus.                         *)
(***************************************************************************)
ExitCode(args) ==
  IF args = <<>> THEN 0
  ELSE IF IsSome(ParseI32(args[1])) THEN Unwrap(ParseI32(args[1])) ELSE 0

\* The directories there are, HOME among them, and the one the shell starts in.
RootDir == <<"/">>

HomeDir == <<"/", "h">>

Dirs == {RootDir, HomeDir, <<"/", "d">>}

\* The terminal, as what a stdin or stdout is.
Tty == [pipe |-> 0, end |-> "tty"]

ParentStart == [stdin |-> Tty, stdout |-> Tty, cwd |-> RootDir]

\* builtins.rs 72-91, Builtin::Cd: the working directory after cd, with HOME
\* set; a path that is no directory leaves it as it was.
set_current_dir(cwd, args) ==
  IF args = <<>> THEN cwd
  ELSE LET new_dir == IF args[1] = <<"~">> THEN HomeDir ELSE args[1]
       IN IF new_dir \in Dirs THEN new_dir ELSE cwd

\* builtins.rs 38-137: what Builtin::execute changes in the process that calls
\* it.  Only cd changes the process; no builtin touches descriptors 0 and 1.
BuiltinEffect(name, args, io) ==
  IF name = W_cd THEN [io EXCEPT !.cwd = set_current_dir(io.cwd, args)] ELSE io

BuiltinExecute(name, args, fileOk) ==
  IF name = W_exit THEN Exit(ExitCode(args))
  ELSE IF name = W_history /\ args # <<>> /\ args[1] = <<"-", "r">>
          /\ Len(args) >= 2 /\ fileOk
       THEN LoadHistory
  ELSE Continue

(***************************************************************************)
(* lib.rs: handle_command, lines 28-69: the loop that takes the            *)
(* redirection operators out of the arguments and opens their files.       *)
(* bad is the set of paths that cannot be created or opened: for one of    *)
(* them unwrap() panics at once.                                           *)
(***************************************************************************)
OpTruncOut == {<<">">>, <<"1", ">">>}

OpAppendOut == {<<">", ">">>, <<"1", ">", ">">>}

OpTruncErr == {<<"2", ">">>}

OpAppendErr == {<<"2", ">", ">">>}

RedirOps == OpTruncOut \cup OpAppendOut \cup OpTruncErr \cup OpAppendErr

\* Stdio::inherit(): no file, and no pipe end either.
NoFd == [pipe |-> 0, end |-> "none"]

\* an operator without a following token that stays among the arguments
KeepDangling(acc, op) == [acc EXCEPT !.clean_args = Append(@, op)]

\* lines 36, 41, 52, 57: args_iter.next() is None after the operator, and
\* nothing is done with it
DanglingOperator(acc, op) == acc

RECURSIVE ExtractLoop(_, _, _)
ExtractLoop(args, bad, acc) ==
  IF args = <<>> THEN acc
  ELSE IF Head(args) \in RedirOps THEN
    IF Len(args) = 1 THEN DanglingOperator(acc, Head(args))
    ELSE LET op == args[1]
             filename == args[2]
             target == [path |-> filename,
                        mode |-> IF op \in OpTruncOut \cup OpTruncErr
                                 THEN "Truncate" ELSE "Append"]
         IN IF filename \in bad
            THEN [acc EXCEPT !.panic = TRUE, !.failed = filename]
            ELSE ExtractLoop(SubSeq(args, 3, Len(args)), bad,
                   IF op \in OpTruncOut \cup OpAppendOut
                   THEN [acc EXCEPT !.stdout_file = target,
                                    !.opened = Append(@, filename)]
                   ELSE [acc EXCEPT !.stderr_file = target,
                                    !.opened = Append(@, filename)])
  ELSE ExtractLoop(Tail(args), bad,
                   [acc EXCEPT !.clean_args = Append(@, Head(args))])

Extract(args, bad) ==
  ExtractLoop(args, bad, [clean_args |-> <<>>, stdout_file |-> NoFd,
                          stderr_file |-> NoFd, opened |-> <<>>, panic |-> FALSE,
                          failed |-> <<>>])

\* The paths the redirection operators of args name.
RedirTargets(args) ==
  {args[k] : k \in {j \in 2..Len(args) : args[j - 1] \in RedirOps}}

(***************************************************************************)
(* lib.rs: handle_command.  env: bad (paths that cannot be opened),        *)
(* spawnOk (Command::spawn succeeds), waitOk (child.wait() succeeds),      *)
(* fileOk (history -r can open its file).  The result: the ShellStatus,    *)
(* whether the call panicked (an unwrap() on an Err, lines 37-63 and 102), *)
(* the command run and what was written to standard error.                 *)
(***************************************************************************)
NoRun == <<>>

handle_command(command, args, history, env) ==
  LET x == Extract(args, env.bad)
      base == [status |-> Continue, panic |-> FALSE, run |-> NoRun, diag |-> <<>>,
               io |-> env.io]
  IN IF x.panic
     THEN [base EXCEPT !.panic = TRUE,
                       !.diag = <<[msg |-> "panicked: cannot open", name |-> x.failed]>>]
     ELSE IF IsBuiltin(command) THEN
       [base EXCEPT
          !.status = BuiltinExecute(command, x.clean_args, env.fileOk),
          !.io = BuiltinEffect(command, x.clean_args, env.io),
          !.run = <<[cmd |-> command, args |-> x.clean_args, via |-> "call",
                     builtin |-> TRUE, history |-> history, stdin |-> NoFd,
                     stdout |-> x.stdout_file, stderr |-> x.stderr_file]>>]
     ELSE IF get_executable_path(command) THEN
       IF env.spawnOk
       THEN [base EXCEPT
               !.panic = ~env.waitOk,
               !.diag = IF env.waitOk THEN <<>>
                        ELSE <<[msg |-> "panicked: cannot wait", name |-> command]>>,
               !.run = <<[cmd |-> command, args |-> x.clean_args, via |-> "spawn",
                          builtin |-> FALSE, history |-> <<>>, stdin |-> NoFd,
                          stdout |-> x.stdout_file, stderr |-> x.stderr_file]>>]
       ELSE [base EXCEPT !.diag = <<[msg |-> "error executing command",
                                     name |-> command]>>]
     ELSE [base EXCEPT !.diag = <<[msg |-> "command not found", name |-> command]>>]

(***************************************************************************)
(* The shell process.  It ends by process::exit(code) (main.rs 241, 254),  *)
(* by main returning Ok(()) on Ctrl-D (line 60, status 0), by main         *)
(* returning an io::Error through `?` (the runtime then ends the process   *)
(* with status 1), or by a panic of the main thread (status 101).          *)
(***************************************************************************)
Running == [st |-> "running", by |-> "none", code |-> 0]

Ended(by, code) == [st |-> "ended", by |-> by, code |-> code]

\* The status of a process whose main thread panics (unwrap on an Err).
PanicStatus == 101

\* The status of a process whose main returns Err.
IoErrorStatus == 1

\* main.rs 240-243 and 253-256: what main does with the ShellStatus it gets.
AfterStatus(status) ==
  IF status.kind = "Exit" THEN Ended("exit", status.code) ELSE Running

(***************************************************************************)
(* Pipe descriptors.  Each pipe has a read end and a write end; a process  *)
(* holds a set of ends (whatever the descriptor numbers they are open as). *)
(***************************************************************************)
R(k) == [pipe |-> k, end |-> "r"]

Wr(k) == [pipe |-> k, end |-> "w"]

EndsOf(n) == {R(k) : k \in 1..n} \cup {Wr(k) : k \in 1..n}

\* libc::close of each descriptor of fds, in a process holding held.
CloseNothing(held, fds) == held

CloseFds(held, fds) == held \ fds

\* The ends among fds that a close call of the shell finds already closed, or
\* given away to a Stdio that has closed them.
Reclosed(held, fds) == fds \ held

\* A child made by fork or by Command::spawn starts with a copy of every
\* descriptor open in the shell: the pipes are made by libc::pipe, without
\* O_CLOEXEC, so they also survive the exec of an external program.  dup2 onto
\* 0 or 1 followed by close of the original keeps the end held.
ChildFds(held) == held

\* lib.rs 321-330 (dup2 in the forked child) and 288-294 (Stdio of the
\* Command): the stdin and stdout of a stage, given those of the shell.
Redirect(io, stdin_fd, stdout_fd) ==
  [io EXCEPT !.stdin = IF stdin_fd = NoFd THEN @ ELSE stdin_fd,
             !.stdout = IF stdout_fd = NoFd THEN @ ELSE stdout_fd]

NoProc == [st |-> "none", fds |-> {}, code |-> 0, builtin |-> FALSE, io |-> ParentStart]

\* lib.rs 218-229 (0-based there): the ends stage i of n is wired to.
StdinFd(i) == IF i = 1 THEN NoFd ELSE R(i - 1)

\* a wiring that gives the last stage a pipe to write to as well
StdoutAlwaysPipe(i, n) == Wr(i)

StdoutFd(i, n) == IF i = n THEN NoFd ELSE Wr(i)

(***************************************************************************)
(* lib.rs 164-181: the stages of a pipeline line; no stage at all when     *)
(* some segment has no token (the early return of line 176).               *)
(***************************************************************************)
RECURSIVE ParseParts(_, _)
ParseParts(parts, acc) ==
  IF parts = <<>> THEN acc
  ELSE LET tokens == tokenize(Head(parts))
       IN IF tokens = <<>> THEN <<>>
          ELSE ParseParts(Tail(parts),
                 Append(acc, [cmd |-> tokens[1], args |-> Tail(tokens)]))

RECURSIVE MapTrim(_)
MapTrim(ss) == IF ss = <<>> THEN <<>> ELSE <<Trim(Head(ss))>> \o MapTrim(Tail(ss))

\* a parse that passes over the segments without a token
ParseSkipBlank(input) ==
  ParseParts(SelectSeq(MapTrim(Split(input, "|")), LAMBDA part : part # <<>>), <<>>)

ParsePipeline(input) == ParseParts(MapTrim(Split(input, "|")), <<>>)

(***************************************************************************)
(* main.rs 37-48: the top of the prompt loop.  The prompt is written and   *)
(* flushed and the terminal enters raw mode; either can fail, and `?`      *)
(* then ends main.                                                         *)
(***************************************************************************)
Term(kind, text) == [kind |-> kind, text |-> text]

\* a RawTerminal that is forgotten, not dropped: the terminal stays as it is
forget(rawMode) == rawMode

\* main.rs 228, and the end of the scope of stdout when main returns (60, and
\* the `?` of 55-212): the drop of the RawTerminal restores the terminal.
drop(rawMode) == FALSE

ResetEditor ==
  /\ history_index' = None
  /\ all_commands' = <<>>
  /\ last_was_tab' = FALSE
  /\ last_tab_matches' = <<>>
  /\ last_tab_buffer' = <<>>
  /\ term' = Term("prompt", <<"$", " ">>)
  /\ lastKey' = "none"
  /\ upRun' = 0

Prompt ==
  /\ mpc = "prompt"
  /\ shell.st = "running"
  /\ Len(command_history) < MaxHistory
  /\ \E ok \in BOOLEAN :
       IF ok
       THEN /\ mpc' = "keys"
            /\ raw' = TRUE
            /\ shell' = shell
       ELSE /\ mpc' = "ended"
            /\ raw' = FALSE
            /\ shell' = Ended("io-error", IoErrorStatus)
  /\ buffer' = <<>>
  /\ ResetEditor
  /\ runs' = <<>>
  /\ diag' = <<>>
  /\ ppc' = "idle"
  /\ commands' = <<>>
  /\ pipes' = 0
  /\ pids' = <<>>
  /\ waited' = 0
  /\ proc' = <<>>
  /\ ret' = NoStatus
  /\ path_' = "none"
  /\ UNCHANGED <<command_history, parentFds>>
  /\ UNCHANGED pureVars
  /\ reclosed' = {}
  /\ UNCHANGED parent

(***************************************************************************)
(* main.rs 53-66: the keys that end a line collection.                     *)
(***************************************************************************)
\* Key::Ctrl('c'), lines 53-57
KeyCtrlC ==
  /\ mpc = "keys"
  /\ buffer' = <<>>
  /\ mpc' = "collected"
  /\ term' = Term("newline", <<"\r", "\n">>)
  /\ lastKey' = "ctrl-c"
  /\ all_commands' = <<>>
  /\ upRun' = 0
  /\ UNCHANGED <<shell, command_history, raw, history_index, last_was_tab,
                 last_tab_matches, last_tab_buffer, runs, diag, pipeVars>>
  /\ UNCHANGED pureVars
  /\ UNCHANGED osVars

\* Key::Ctrl('d'), lines 58-62: main returns Ok(()) when the buffer is empty
\* (the RawTerminal is dropped on the way out), and nothing happens otherwise.
KeyCtrlD ==
  /\ mpc = "keys"
  /\ IF buffer = <<>>
     THEN /\ mpc' = "ended"
          /\ shell' = Ended("ctrl-d", 0)
          /\ raw' = drop(raw)
     ELSE UNCHANGED <<mpc, shell, raw>>
  /\ term' = Term("none", <<>>)
  /\ lastKey' = "ctrl-d"
  /\ all_commands' = <<>>
  /\ upRun' = 0
  /\ UNCHANGED <<command_history, buffer, history_index, last_was_tab,
                 last_tab_matches, last_tab_buffer, runs, diag, pipeVars>>
  /\ UNCHANGED pureVars
  /\ UNCHANGED osVars

\* Key::Char('\n') | Key::Char('\r'), lines 63-66
KeyEnter ==
  /\ mpc = "keys"
  /\ mpc' = "collected"
  /\ term' = Term("newline", <<"\r", "\n">>)
  /\ lastKey' = "enter"
  /\ all_commands' = <<>>
  /\ upRun' = 0
  /\ UNCHANGED <<shell, command_history, buffer, raw, history_index, last_was_tab,
                 last_tab_matches, last_tab_buffer, runs, diag, pipeVars>>
  /\ UNCHANGED pureVars
  /\ UNCHANGED osVars

(***************************************************************************)
(* main.rs 10-32 and 130-149: the candidates of a completion.  Strings     *)
(* compare as Rust compares them, byte by byte; the names of the model are *)
(* lower-case ASCII.                                                       *)
(***************************************************************************)
Alphabet ==
  <<" ", "a", "b", "c", "d", "e", "f", "g", "h", "i", "j", "k", "l", "m",
    "n", "o", "p", "q", "r", "s", "t", "u", "v", "w", "x", "y", "z">>

CharCode(c) == CHOOSE k \in 1..Len(Alphabet) : Alphabet[k] = c

\* String::cmp(a, b) == Ordering::Less
RECURSIVE StrLess(_, _)
StrLess(a, b) ==
  IF b = <<>> THEN FALSE
  ELSE IF a = <<>> THEN TRUE
  ELSE IF Head(a) = Head(b) THEN StrLess(Tail(a), Tail(b))
  ELSE CharCode(Head(a)) < CharCode(Head(b))

\* the place of s in the sorted vector v
RECURSIVE Insert(_, _)
Insert(s, v) ==
  IF v = <<>> THEN <<s>>
  ELSE IF StrLess(Head(v), s) THEN <<Head(v)>> \o Insert(s, Tail(v))
  ELSE <<s>> \o v

\* Vec::sort, line 148
RECURSIVE sort(_)
sort(v) == IF v = <<>> THEN <<>> ELSE Insert(Head(v), sort(Tail(v)))

\* a vector that keeps its consecutive repetitions
NoDedup(v) == v

\* Vec::dedup, line 149: consecutive repetitions are removed
RECURSIVE dedup(_)
dedup(v) ==
  IF Len(v) <= 1 THEN v
  ELSE IF v[1] = v[2] THEN dedup(Tail(v))
  ELSE <<v[1]>> \o dedup(Tail(v))

\* s.chars().nth(i), with i 1-based here
Nth(s, i) == IF i <= Len(s) THEN Some(s[i]) ELSE None

\* lines 23-29: the scan of the first string, from its i-th character on
RECURSIVE LcpFrom(_, _)
LcpFrom(strings, i) ==
  LET first == strings[1]
  IN IF i > Len(first) THEN <<>>
     ELSE IF \A k \in DOMAIN strings : Nth(strings[k], i) = Some(first[i])
     THEN <<first[i]>> \o LcpFrom(strings, i + 1)
     ELSE <<>>

\* lines 11-32
longest_common_prefix(strings) ==
  IF strings = <<>> THEN <<>>
  ELSE IF Len(strings) = 1 THEN strings[1]
  ELSE LcpFrom(strings, 1)

\* line 132
builtins == <<W_echo, W_exit, W_type, W_pwd, W_cd, W_history>>

W_xee == <<"x", "e", "e">>

W_xex == <<"x", "e", "x">>

\* lib.rs 137-157: what get_all_executables can return, in the order the
\* directories of PATH list their entries: nothing, the executables
\* get_executable_path resolves, two names that share a prefix, and a name
\* found in two directories together with an executable called echo.
get_all_executables ==
  { <<>>, <<W_wc, W_cat>>, <<W_xex, W_xee>>, <<W_xee, W_echo, W_xee>> }

\* lines 133-149: all_commands for the buffer and the executables found
Candidates(buf, executables) ==
  dedup(sort(SelectSeq(builtins, LAMBDA cmd : StartsWith(cmd, buf))
             \o SelectSeq(executables, LAMBDA cmd : StartsWith(cmd, buf))))

\* &cmd[buffer.len()..], lines 154 and 171
Remainder(cmd, buf) == SubSeq(cmd, Len(buf) + 1, Len(cmd))

Bell == <<"\\x07">>

CrLf == <<"\r", "\n">>

\* lines 183-185: what the second Tab writes
Listing(matches, buf) ==
  CrLf \o JoinWith(matches, <<" ", " ">>) \o CrLf \o <<"$", " ">> \o buf

(***************************************************************************)
(* main.rs 67-218: the keys that edit the line.  upRun counts the Up keys  *)
(* read in a row since one that found the cursor unset.                    *)
(***************************************************************************)
\* an Up key that wraps from the oldest entry to the newest
UpIndexWrap(index, len) ==
  IF index = None \/ index = Some(0) THEN len - 1 ELSE Unwrap(index) - 1

\* lines 70-74: new_index of Key::Up
UpIndex(index, len) ==
  IF index = None THEN len - 1
  ELSE IF index = Some(0) THEN 0
  ELSE Unwrap(index) - 1

\* lines 78-87 and 116-125: the line is cleared and the entry written
Redraw(old, new) ==
  <<"\r", "$", " ">> \o [k \in 1..Len(old) |-> " "] \o <<"\r", "$", " ">> \o new

\* Key::Up, lines 67-91
KeyUp ==
  /\ mpc = "keys"
  /\ upRun < MaxUps
  /\ IF command_history # <<>>
     THEN LET new_index == UpIndex(history_index, Len(command_history))
          IN /\ history_index' = Some(new_index)
             /\ buffer' = command_history[new_index + 1]
             /\ term' = Term("redraw", Redraw(buffer, command_history[new_index + 1]))
     ELSE /\ UNCHANGED <<history_index, buffer>>
          /\ term' = Term("none", <<>>)
  /\ last_was_tab' = FALSE
  /\ all_commands' = <<>>
  /\ lastKey' = "up"
  /\ upRun' = IF history_index = None THEN 1
              ELSE IF upRun >= 1 THEN upRun + 1
              ELSE 0
  /\ UNCHANGED <<mpc, shell, command_history, raw, last_tab_matches,
                 last_tab_buffer, runs, diag, pipeVars>>
  /\ UNCHANGED pureVars
  /\ UNCHANGED osVars

\* Key::Down, lines 92-129
KeyDown ==
  /\ mpc = "keys"
  /\ IF IsSome(history_index)
     THEN LET idx == Unwrap(history_index)
          IN IF idx + 1 >= Len(command_history)
             THEN /\ history_index' = None
                  /\ buffer' = <<>>
                  /\ term' = Term("redraw", Redraw(buffer, <<>>))
             ELSE /\ history_index' = Some(idx + 1)
                  /\ buffer' = command_history[idx + 2]
                  /\ term' = Term("redraw", Redraw(buffer, command_history[idx + 2]))
     ELSE /\ UNCHANGED <<history_index, buffer>>
          /\ term' = Term("none", <<>>)
  /\ last_was_tab' = FALSE
  /\ all_commands' = <<>>
  /\ lastKey' = "down"
  /\ upRun' = 0
  /\ UNCHANGED <<mpc, shell, command_history, raw, last_tab_matches,
                 last_tab_buffer, runs, diag, pipeVars>>
  /\ UNCHANGED pureVars
  /\ UNCHANGED osVars

\* Key::Char('\t'), lines 130-198
KeyTab ==
  /\ mpc = "keys"
  /\ \E executables \in get_all_executables :
       LET cands == Candidates(buffer, executables)
           lcp == longest_common_prefix(cands)
       IN /\ all_commands' = cands
          /\ IF Len(cands) = 1
             THEN /\ buffer' = buffer \o Remainder(cands[1], buffer) \o <<" ">>
                  /\ term' = Term("complete", Remainder(cands[1], buffer) \o <<" ">>)
                  /\ last_was_tab' = FALSE
                  /\ UNCHANGED <<last_tab_matches, last_tab_buffer>>
             ELSE IF cands = <<>>
             THEN /\ term' = Term("bell", Bell)
                  /\ last_was_tab' = FALSE
                  /\ UNCHANGED <<buffer, last_tab_matches, last_tab_buffer>>
             ELSE IF Len(lcp) > Len(buffer)
             THEN /\ buffer' = buffer \o Remainder(lcp, buffer)
                  /\ term' = Term("complete", Remainder(lcp, buffer))
                  /\ last_was_tab' = FALSE
                  /\ UNCHANGED <<last_tab_matches, last_tab_buffer>>
             ELSE IF last_was_tab /\ buffer = last_tab_buffer /\ last_tab_matches # <<>>
             THEN /\ term' = Term("list", Listing(last_tab_matches, buffer))
                  /\ last_was_tab' = FALSE
                  /\ UNCHANGED <<buffer, last_tab_matches, last_tab_buffer>>
             ELSE /\ term' = Term("bell", Bell)
                  /\ last_was_tab' = TRUE
                  /\ last_tab_matches' = cands
                  /\ last_tab_buffer' = buffer
                  /\ UNCHANGED buffer
  /\ lastKey' = "tab"
  /\ upRun' = 0
  /\ UNCHANGED <<mpc, shell, command_history, raw, history_index, runs, diag,
                 pipeVars>>
  /\ UNCHANGED pureVars
  /\ UNCHANGED osVars

\* Key::Backspace, lines 199-208
KeyBackspace ==
  /\ mpc = "keys"
  /\ IF buffer # <<>>
     THEN /\ buffer' = SubSeq(buffer, 1, Len(buffer) - 1)
          /\ term' = Term("erase", <<"\\x08", " ", "\\x08">>)
     ELSE /\ UNCHANGED buffer
          /\ term' = Term("none", <<>>)
  /\ last_was_tab' = FALSE
  /\ history_index' = None
  /\ all_commands' = <<>>
  /\ lastKey' = "backspace"
  /\ upRun' = 0
  /\ UNCHANGED <<mpc, shell, command_history, raw, last_tab_matches,
                 last_tab_buffer, runs, diag, pipeVars>>
  /\ UNCHANGED pureVars
  /\ UNCHANGED osVars

\* the characters the editor specification types
Chars == {"e", "x"}

\* Key::Char(c), lines 209-215
KeyChar(c) ==
  /\ mpc = "keys"
  /\ Len(buffer) < MaxBuf
  /\ buffer' = Append(buffer, c)
  /\ term' = Term("echo", <<c>>)
  /\ last_was_tab' = FALSE
  /\ history_index' = None
  /\ all_commands' = <<>>
  /\ lastKey' = "char"
  /\ upRun' = 0
  /\ UNCHANGED <<mpc, shell, command_history, raw, last_tab_matches,
                 last_tab_buffer, runs, diag, pipeVars>>
  /\ UNCHANGED pureVars
  /\ UNCHANGED osVars

\* any other key, lines 216-218
KeyOther ==
  /\ mpc = "keys"
  /\ last_was_tab' = FALSE
  /\ term' = Term("none", <<>>)
  /\ all_commands' = <<>>
  /\ lastKey' = "other"
  /\ upRun' = 0
  /\ UNCHANGED <<mpc, shell, command_history, buffer, raw, history_index,
                 last_tab_matches, last_tab_buffer, runs, diag, pipeVars>>
  /\ UNCHANGED pureVars
  /\ UNCHANGED osVars

\* a write to the terminal fails in the handler of a key (the `?` of lines
\* 55-212): main returns the error and the process ends
KeyIoError ==
  /\ mpc = "keys"
  /\ mpc' = "ended"
  /\ shell' = Ended("io-error", IoErrorStatus)
  /\ raw' = drop(raw)
  /\ term' = Term("none", <<>>)
  /\ all_commands' = <<>>
  /\ lastKey' = "io-error"
  /\ upRun' = 0
  /\ UNCHANGED <<command_history, buffer, history_index, last_was_tab,
                 last_tab_matches, last_tab_buffer, runs, diag, pipeVars>>
  /\ UNCHANGED pureVars
  /\ UNCHANGED osVars

\* the read of a key fails, lines 220-223: the line collected so far is run
KeyReadError ==
  /\ mpc = "keys"
  /\ mpc' = "collected"
  /\ term' = Term("none", <<>>)
  /\ all_commands' = <<>>
  /\ lastKey' = "read-error"
  /\ upRun' = 0
  /\ diag' = Append(diag, [msg |-> "Error reading input", name |-> <<>>])
  /\ UNCHANGED <<shell, command_history, buffer, raw, history_index, last_was_tab,
                 last_tab_matches, last_tab_buffer, runs, pipeVars>>
  /\ UNCHANGED pureVars
  /\ UNCHANGED osVars

(***************************************************************************)
(* main.rs 227-256 with lib.rs 164-190: the line is trimmed, an empty line *)
(* goes back to the prompt, any other is pushed on the history and run: a  *)
(* line with a '|' by execute_pipeline, the others by handle_command.      *)
(* handle_command runs to its end here, the wait for its child included;   *)
(* execute_pipeline runs up to the creation of its pipes, and the actions  *)
(* below take it from there.                                               *)
(***************************************************************************)
\* lib.rs 186 and 337: the history a pipeline hands to a builtin is &[]
PipelineHistory(history) == <<>>

\* a push that puts the line in front of the log
HistoryPushFront(history, line) == <<line>> \o history

\* main.rs 236: command_history.push(input_string.clone())
HistoryPush(history, line) == Append(history, line)

Dispatch ==
  /\ mpc = "collected"
  /\ shell.st = "running"
  /\ raw' = drop(raw)
  /\ LET input_string == Trim(buffer)
         history == HistoryPush(command_history, input_string)
     IN IF input_string = <<>>
        THEN /\ mpc' = "prompt"
             /\ UNCHANGED <<shell, command_history, runs, diag, pipeVars, parent>>
        ELSE
          /\ command_history' = history
          /\ IF Contains(input_string, "|")
             THEN LET cs == ParsePipeline(input_string)
                  IN IF cs = <<>>
                     THEN /\ mpc' = "pipeline"
                          /\ ppc' = "return"
                          /\ ret' = Continue
                          /\ path_' = "noparse"
                          /\ UNCHANGED <<shell, runs, diag, commands, pipes,
                                         parentFds, pids, waited, proc, parent>>
                     ELSE IF Len(cs) = 1
                     THEN \E bad \in SUBSET RedirTargets(cs[1].args),
                             spawnOk \in BOOLEAN, waitOk \in BOOLEAN,
                             fileOk \in BOOLEAN :
                            LET r == handle_command(cs[1].cmd, cs[1].args,
                                       PipelineHistory(history),
                                       [bad |-> bad, spawnOk |-> spawnOk,
                                        waitOk |-> waitOk, fileOk |-> fileOk,
                                        io |-> parent])
                            IN /\ runs' = r.run
                               /\ parent' = r.io
                               /\ diag' = r.diag
                               /\ IF r.panic
                                  THEN /\ mpc' = "ended"
                                       /\ shell' = Ended("panic", PanicStatus)
                                       /\ UNCHANGED <<ppc, ret, path_>>
                                  ELSE /\ mpc' = "pipeline"
                                       /\ ppc' = "return"
                                       /\ ret' = r.status
                                       /\ path_' = "single"
                                       /\ UNCHANGED shell
                               /\ UNCHANGED <<commands, pipes, parentFds, pids,
                                              waited, proc>>
                     ELSE /\ mpc' = "pipeline"
                          /\ ppc' = "pipes"
                          /\ commands' = cs
                          /\ proc' = [i \in 1..Len(cs) |-> NoProc]
                          /\ UNCHANGED <<shell, runs, diag, pipes, parentFds,
                                         pids, waited, ret, path_, parent>>
             ELSE LET tokens == tokenize(input_string)
                  IN IF tokens = <<>>
                     THEN /\ mpc' = "prompt"
                          /\ UNCHANGED <<shell, runs, diag, pipeVars, parent>>
                     ELSE \E bad \in SUBSET RedirTargets(Tail(tokens)),
                             spawnOk \in BOOLEAN, waitOk \in BOOLEAN,
                             fileOk \in BOOLEAN :
                            LET r == handle_command(tokens[1], Tail(tokens), history,
                                       [bad |-> bad, spawnOk |-> spawnOk,
                                        waitOk |-> waitOk, fileOk |-> fileOk,
                                        io |-> parent])
                            IN /\ runs' = r.run
                               /\ parent' = r.io
                               /\ diag' = r.diag
                               /\ IF r.panic
                                  THEN /\ mpc' = "ended"
                                       /\ shell' = Ended("panic", PanicStatus)
                                  ELSE /\ shell' = AfterStatus(r.status)
                                       /\ mpc' = IF r.status.kind = "Exit"
                                                 THEN "ended" ELSE "prompt"
                               /\ UNCHANGED pipeVars
  /\ UNCHANGED <<buffer, editorVars>>
  /\ UNCHANGED pureVars
  /\ UNCHANGED reclosed

(***************************************************************************)
(* lib.rs 189-207: one turn of the loop that creates the pipes.  When      *)
(* libc::pipe fails the pipes made so far are closed and execute_pipeline  *)
(* returns Continue.                                                       *)
(***************************************************************************)
CreatePipe ==
  /\ mpc = "pipeline"
  /\ ppc = "pipes"
  /\ \E ok \in BOOLEAN :
       IF ok
       THEN /\ pipes' = pipes + 1
            /\ parentFds' = parentFds \cup {R(pipes + 1), Wr(pipes + 1)}
            /\ ppc' = IF pipes + 1 = Len(commands) - 1 THEN "launch" ELSE "pipes"
            /\ UNCHANGED <<ret, path_, diag, reclosed>>
       ELSE /\ parentFds' = CloseFds(parentFds, EndsOf(pipes))
            /\ reclosed' = reclosed \cup Reclosed(parentFds, EndsOf(pipes))
            /\ ppc' = "return"
            /\ ret' = Continue
            /\ path_' = "pipefail"
            /\ diag' = Append(diag, [msg |-> "Failed to create pipe", name |-> <<>>])
            /\ UNCHANGED pipes
  /\ UNCHANGED <<mpc, shell, command_history, buffer, raw, editorVars, runs,
                 commands, pids, waited, proc>>
  /\ UNCHANGED pureVars
  /\ UNCHANGED parent

(***************************************************************************)
(* lib.rs 212-255 with 279-366: one turn of the loop that launches the     *)
(* stages.  A builtin stage is forked (execute_builtin_in_pipeline), an    *)
(* external one spawned (spawn_external_in_pipeline); ok says whether fork *)
(* or spawn succeeds.  Whether the launch succeeds or not, the shell       *)
(* closes the two ends it handed to the stage: by libc::close after fork   *)
(* (lines 347-352 and 357-362), and by the drop of the Command, which owns *)
(* them through Stdio::from_raw_fd (lines 289 and 293).  When the launch   *)
(* fails, the stages launched so far are killed, every pipe is closed and  *)
(* execute_pipeline returns Continue.                                      *)
(***************************************************************************)
\* a child that falls through to the exit(1) of line 343
ChildExitOne(cmd, args) == 1

\* The exit status of the forked child of a builtin stage, lines 337-340.
ChildExitCode(cmd, args) ==
  LET status == BuiltinExecute(cmd, args, TRUE)
  IN IF status.kind = "Exit" THEN status.code ELSE 0

\* a cleanup that leaves the launched stages running
KillNone(procs) == procs

\* lines 240-244: SIGKILL to every pid launched so far; a stage that still
\* runs ends and releases the ends it holds
KillAll(procs) ==
  [j \in DOMAIN procs |->
     IF procs[j].st = "running"
     THEN [procs[j] EXCEPT !.st = "killed", !.fds = {}]
     ELSE procs[j]]

LaunchStage ==
  /\ mpc = "pipeline"
  /\ ppc = "launch"
  /\ \E ok \in BOOLEAN :
       LET i == Len(pids) + 1
           n == Len(commands)
           cmd == commands[i].cmd
           args == commands[i].args
           is_builtin == IsBuiltin(cmd)
           stdin_fd == StdinFd(i)
           stdout_fd == StdoutFd(i, n)
           handed == {stdin_fd, stdout_fd} \ {NoFd}
           launched == ok /\ (is_builtin \/ get_executable_path(cmd))
           run == [cmd |-> cmd, args |-> args,
                   via |-> IF is_builtin THEN "fork" ELSE "spawn",
                   builtin |-> is_builtin,
                   history |-> PipelineHistory(command_history),
                   stdin |-> stdin_fd, stdout |-> stdout_fd, stderr |-> NoFd]
       IN IF launched
          THEN /\ proc' = [proc EXCEPT ![i] =
                             [st |-> "running", fds |-> ChildFds(parentFds),
                              code |-> IF is_builtin THEN ChildExitCode(cmd, args)
                                       ELSE 0,
                              builtin |-> is_builtin,
                              io |-> IF is_builtin
                                     THEN BuiltinEffect(cmd, args,
                                            Redirect(parent, stdin_fd, stdout_fd))
                                     ELSE Redirect(parent, stdin_fd, stdout_fd)]]
               /\ runs' = Append(runs, run)
               /\ parentFds' = CloseFds(parentFds, handed)
               /\ reclosed' = reclosed \cup Reclosed(parentFds, handed)
               /\ pids' = Append(pids, i)
               /\ ppc' = IF i = n THEN "closeall" ELSE "launch"
               /\ UNCHANGED <<ret, path_, diag>>
          ELSE /\ proc' = KillAll(proc)
               /\ parentFds' = CloseFds(CloseFds(parentFds, handed), EndsOf(pipes))
               /\ reclosed' = reclosed \cup Reclosed(parentFds, handed)
                                \cup Reclosed(CloseFds(parentFds, handed), EndsOf(pipes))
               /\ ppc' = "return"
               /\ ret' = Continue
               /\ path_' = "launchfail"
               /\ diag' = diag \o
                    <<[msg |-> IF is_builtin THEN "Failed to fork for built-in command"
                               ELSE "error executing command", name |-> cmd],
                      [msg |-> "Failed to spawn command", name |-> cmd]>>
               /\ UNCHANGED <<runs, pids>>
  /\ UNCHANGED <<mpc, shell, command_history, buffer, raw, editorVars,
                 commands, pipes, waited>>
  /\ UNCHANGED pureVars
  /\ UNCHANGED parent

(***************************************************************************)
(* lib.rs 257-263: every pipe descriptor is closed in the shell.           *)
(***************************************************************************)
CloseAll ==
  /\ mpc = "pipeline"
  /\ ppc = "closeall"
  /\ parentFds' = CloseFds(parentFds, EndsOf(pipes))
  /\ ppc' = "wait"
  /\ UNCHANGED <<mpc, shell, command_history, buffer, raw, editorVars, runs, diag,
                 commands, pipes, pids, waited, proc, ret, path_>>
  /\ UNCHANGED pureVars
  /\ reclosed' = reclosed \cup Reclosed(parentFds, EndsOf(pipes))
  /\ UNCHANGED parent

(***************************************************************************)
(* lib.rs 265-273: one turn of the loop of waitpid calls.  waitpid blocks  *)
(* while the stage runs and reaps it once it has ended; a waitpid that     *)
(* fails (ECHILD, when the kernel reaps the children itself) has blocked   *)
(* as long, and its result is ignored.  After the last one                 *)
(* execute_pipeline returns Continue.                                      *)
(***************************************************************************)
ReturnLast(codes) == IF codes[Len(codes)] # 0 THEN Exit(codes[Len(codes)]) ELSE Continue

PipelineStatus(codes) == Continue

\* a wait loop that takes the stages from the last to the first
LastToWait(launched, done) == launched[Len(launched) - done]

\* line 266: for pid in pids, the stage of the next waitpid
NextToWait(launched, done) == launched[done + 1]

WaitStage ==
  /\ mpc = "pipeline"
  /\ ppc = "wait"
  /\ \E ok \in BOOLEAN :
       LET i == NextToWait(pids, waited)
       IN /\ proc[i].st = "exited"
          /\ IF ok THEN proc' = [proc EXCEPT ![i].st = "reaped"]
             ELSE UNCHANGED proc
  /\ waited' = waited + 1
  /\ IF waited + 1 = Len(pids)
     THEN /\ ppc' = "return"
          /\ ret' = PipelineStatus([j \in 1..Len(proc) |-> proc[j].code])
          /\ path_' = "reaped"
     ELSE UNCHANGED <<ppc, ret, path_>>
  /\ UNCHANGED <<mpc, shell, command_history, buffer, raw, editorVars, runs, diag,
                 commands, pipes, parentFds, pids>>
  /\ UNCHANGED pureVars
  /\ UNCHANGED osVars

(***************************************************************************)
(* main.rs 240-243: execute_pipeline has returned.                         *)
(***************************************************************************)
PipelineReturn ==
  /\ mpc = "pipeline"
  /\ ppc = "return"
  /\ shell' = AfterStatus(ret)
  /\ mpc' = IF ret.kind = "Exit" THEN "ended" ELSE "prompt"
  /\ ppc' = "returned"
  /\ UNCHANGED <<command_history, buffer, raw, editorVars, runs, diag,
                 commands, pipes, parentFds, pids, waited, proc, ret, path_>>
  /\ UNCHANGED pureVars
  /\ UNCHANGED osVars

(***************************************************************************)
(* The stage processes.  The forked child of a builtin stage runs the      *)
(* builtin and ends with process::exit (lib.rs 337-343).  An external      *)
(* program ends when it chooses to (StageExit), and is taken to end when   *)
(* its stdin is a pipe at end-of-file, that is with no holder of the write *)
(* end left, or when its stdout is a pipe with no holder of the read end   *)
(* left (StageEof).  A process that ends releases the ends it holds.       *)
(***************************************************************************)
Holders(e) == {j \in DOMAIN proc : proc[j].st = "running" /\ e \in proc[j].fds}

Held(e) == e \in parentFds \/ Holders(e) # {}

StdinAtEof(i) == i > 1 /\ ~Held(Wr(i - 1))

StdoutBroken(i) == i < Len(commands) /\ ~Held(R(i))

BuiltinStageExit(i) ==
  /\ mpc = "pipeline"
  /\ i \in DOMAIN proc
  /\ proc[i].st = "running"
  /\ proc[i].builtin
  /\ proc' = [proc EXCEPT ![i].st = "exited", ![i].fds = {}]
  /\ UNCHANGED <<mpc, shell, command_history, buffer, raw, editorVars, runs, diag,
                 ppc, commands, pipes, parentFds, pids, waited, ret, path_>>
  /\ UNCHANGED pureVars
  /\ UNCHANGED osVars

StageExit(i) ==
  /\ mpc = "pipeline"
  /\ i \in DOMAIN proc
  /\ proc[i].st = "running"
  /\ ~proc[i].builtin
  /\ ~(StdinAtEof(i) \/ StdoutBroken(i))
  /\ proc' = [proc EXCEPT ![i].st = "exited", ![i].fds = {}]
  /\ UNCHANGED <<mpc, shell, command_history, buffer, raw, editorVars, runs, diag,
                 ppc, commands, pipes, parentFds, pids, waited, ret, path_>>
  /\ UNCHANGED pureVars
  /\ UNCHANGED osVars

StageEof(i) ==
  /\ mpc = "pipeline"
  /\ i \in DOMAIN proc
  /\ proc[i].st = "running"
  /\ ~proc[i].builtin
  /\ StdinAtEof(i) \/ StdoutBroken(i)
  /\ proc' = [proc EXCEPT ![i].st = "exited", ![i].fds = {}]
  /\ UNCHANGED <<mpc, shell, command_history, buffer, raw, editorVars, runs, diag,
                 ppc, commands, pipes, parentFds, pids, waited, ret, path_>>
  /\ UNCHANGED pureVars
  /\ UNCHANGED osVars

(***************************************************************************)
(* The lines of a session.  In Spec the editing keys of one line           *)
(* collection are taken together: TypeLine puts a whole line in the        *)
(* buffer, as a run of Key::Char would (main.rs 209-215); SpecEditor       *)
(* below has the keys one by one.                                          *)
(***************************************************************************)
Sp == <<" ">>

Bar == <<"|">>

L_exit7 == W_exit \o Sp \o <<"7">>

L_exitx == W_exit \o Sp \o <<"x">>

L_exitbig == W_exit \o Sp \o <<"2", "1", "4", "7", "4", "8", "3", "6", "4", "8">>

L_exitredir == W_exit \o Sp \o <<"3">> \o Sp \o <<">">> \o Sp \o <<"o">>

L_echo == W_echo \o Sp \o <<"h", "i">> \o Sp \o <<"2", ">", ">">> \o Sp \o <<"e">>

L_cat == W_cat \o Sp \o <<"f">>

L_zz == <<"z", "z">>

L_catredir == W_cat \o Sp \o <<">">> \o Sp \o <<"o">>

L_blank == <<" ", " ">>

L_cd == W_cd \o Sp \o <<"/", "d">>

\* lines with a '|' between quotes or after a backslash
L_echobar == W_echo \o Sp \o <<"'", "|", "'">>

L_echoesc == W_echo \o Sp \o <<"\\", "|">>

L_echobarcat == L_echobar \o Sp \o Bar \o Sp \o W_cat

L_padded == Sp \o L_zz \o Sp

Lines ==
  { L_exit7, W_exit, L_exitx, L_exitbig, L_exitredir, L_echo, L_cat, L_zz,
    W_history, L_blank, L_padded, L_cd, L_echobar, L_echoesc, L_echobarcat,
    L_exit7 \o Sp \o Bar \o Sp \o W_cat,
    W_history \o Sp \o Bar \o Sp \o L_catredir }

TypeLine(l) ==
  /\ mpc = "keys"
  /\ buffer = <<>>
  /\ lastKey = "none"
  /\ buffer' = l
  /\ term' = Term("echo", l)
  /\ all_commands' = <<>>
  /\ lastKey' = "char"
  /\ UNCHANGED <<mpc, shell, command_history, raw, history_index, last_was_tab,
                 last_tab_matches, last_tab_buffer, upRun, runs, diag, pipeVars>>
  /\ UNCHANGED pureVars
  /\ UNCHANGED osVars

\* The stages SpecPipeline builds its pipelines from.
StageCmds == {L_exit7, W_history, L_catredir, L_zz, L_cd, <<>>}

PipelineLines ==
  UNION { { JoinWith(stages, Sp \o Bar \o Sp) : stages \in [1..n -> StageCmds] }
          : n \in 2..MaxStages }

(***************************************************************************)
(* The specifications.                                                     *)
(***************************************************************************)
InitEditor ==
  /\ history_index = None
  /\ last_was_tab = FALSE
  /\ last_tab_matches = <<>>
  /\ last_tab_buffer = <<>>
  /\ all_commands = <<>>
  /\ term = Term("none", <<>>)
  /\ lastKey = "none"
  /\ upRun = 0

InitPipe ==
  /\ ppc = "idle"
  /\ commands = <<>>
  /\ pipes = 0
  /\ parentFds = {}
  /\ pids = <<>>
  /\ waited = 0
  /\ proc = <<>>
  /\ ret = NoStatus
  /\ path_ = "none"

\* No library function has been applied.
InitPure ==
  /\ call = "none"
  /\ callInput = <<>>
  /\ callOutput = <<>>

\* The shell process as it starts.
InitOs ==
  /\ parent = ParentStart
  /\ reclosed = {}

\* The shell as main starts it.
Init ==
  /\ mpc = "prompt"
  /\ shell = Running
  /\ command_history = <<>>
  /\ buffer = <<>>
  /\ raw = FALSE
  /\ runs = <<>>
  /\ diag = <<>>
  /\ InitEditor
  /\ InitPipe
  /\ InitPure
  /\ InitOs

StageStep == \E i \in DOMAIN proc : BuiltinStageExit(i) \/ StageExit(i) \/ StageEof(i)

PipelineStep ==
  \/ CreatePipe
  \/ LaunchStage
  \/ CloseAll
  \/ WaitStage
  \/ PipelineReturn
  \/ StageStep

Next ==
  \/ Prompt
  \/ \E l \in Lines : TypeLine(l)
  \/ KeyCtrlC
  \/ KeyCtrlD
  \/ KeyEnter
  \/ KeyIoError
  \/ KeyReadError
  \/ Dispatch
  \/ PipelineStep

Spec == Init /\ [][Next]_vars

\* The shell with a pipeline line just collected, as the first line of a session.
InitPipeline ==
  /\ mpc = "collected"
  /\ shell = Running
  /\ command_history = <<>>
  /\ buffer \in PipelineLines
  /\ raw = TRUE
  /\ runs = <<>>
  /\ diag = <<>>
  /\ InitEditor
  /\ InitPipe
  /\ InitPure
  /\ InitOs

NextPipeline == Dispatch \/ PipelineStep

SpecPipeline == InitPipeline /\ [][NextPipeline]_vars

\* The lines of the history the editor specification starts from: lines the
\* shell has accepted and answered with "command not found".
HistoryLines == {<<"e">>, <<"e", "x">>, L_zz}

Histories == UNION { [1..n -> HistoryLines] : n \in 0..MaxHistory }

\* The shell at the start of a line collection (main.rs 44-50), with a history
\* of lines accepted before.
InitKeys ==
  /\ mpc = "keys"
  /\ shell = Running
  /\ command_history \in Histories
  /\ buffer = <<>>
  /\ raw = TRUE
  /\ runs = <<>>
  /\ diag = <<>>
  /\ history_index = None
  /\ last_was_tab = FALSE
  /\ last_tab_matches = <<>>
  /\ last_tab_buffer = <<>>
  /\ all_commands = <<>>
  /\ term = Term("prompt", <<"$", " ">>)
  /\ lastKey = "none"
  /\ upRun = 0
  /\ InitPipe
  /\ InitPure
  /\ InitOs

\* One line collection: the keys of main.rs 50-225.
NextKeys ==
  \/ KeyCtrlC
  \/ KeyCtrlD
  \/ KeyEnter
  \/ KeyUp
  \/ KeyDown
  \/ KeyTab
  \/ KeyBackspace
  \/ \E c \in Chars : KeyChar(c)
  \/ KeyOther
  \/ KeyIoError
  \/ KeyReadError

SpecEditor == InitKeys /\ [][NextKeys]_vars

\* The scheduling of a running pipeline: the shell goes on whenever it is not
\* blocked in waitpid, the forked child of a builtin stage runs to its
\* process::exit, and an external stage ends once its stdin is at end-of-file
\* or its stdout has no reader left.  Nothing makes an external stage end
\* otherwise.
\* (Each of these steps is taken finitely often in a pipeline, so weak fairness
\* of a disjunction of them is weak fairness of each.  Dispatch is enabled
\* exactly when a line is collected and the shell runs, and it leaves that
\* state, so its weak fairness is that this state does not last for ever.)
DispatchFair == []<>~(mpc = "collected" /\ shell.st = "running")

ShellStep == CreatePipe \/ LaunchStage \/ CloseAll \/ WaitStage \/ PipelineReturn

ForcedExit == \E i \in DOMAIN proc : BuiltinStageExit(i) \/ StageEof(i)

FairPipeline == DispatchFair /\ WF_vars(ShellStep) /\ WF_vars(ForcedExit)

FairSpecPipeline == SpecPipeline /\ FairPipeline

(***************************************************************************)
(* Properties of execute_pipeline.                                         *)
(***************************************************************************)
Returned == ppc \in {"return", "returned"}

\* C1: when execute_pipeline returns from a pipeline of two or more stages
\* (pipe creation failed, a launch failed, or every stage was waited for), no
\* pipe end is open in the shell process.
C1_ParentHoldsNoPipeEnd ==
  (Returned /\ path_ \in {"pipefail", "launchfail", "reaped"}) => parentFds = {}

C1_Witness ==
  /\ ppc = "return"
  /\ path_ = "launchfail"
  /\ pipes >= 2
  /\ \E i, j \in DOMAIN proc :
       /\ proc[i].st = "killed" /\ proc[i].builtin
       /\ proc[j].st = "killed" /\ ~proc[j].builtin

\* The ends stage i of the pipeline uses: its stdin and its stdout.
OwnEnds(i) == {StdinFd(i), StdoutFd(i, Len(commands))} \ {NoFd}

\* C2: once every stage is launched and the shell has closed its copies, each
\* pipe end is held by the stage that uses it and by no other process.
C2_EndsHeldByTheirStageOnly ==
  ppc = "wait" =>
    /\ parentFds = {}
    /\ \A i \in DOMAIN proc : proc[i].st = "running" => proc[i].fds \subseteq OwnEnds(i)

\* C3: a dispatched pipeline does not deadlock on its own descriptors: given
\* that a stage ends once its stdin is at end-of-file or its stdout has no
\* reader left (FairPipeline), from the moment one stage has ended, whichever
\* it is, every stage ends and execute_pipeline returns.
SomeStageEnded == \E i \in DOMAIN proc : proc[i].st \in {"exited", "reaped"}

AllStagesEnded == \A i \in DOMAIN proc : proc[i].st # "running"

C3_PipelineTerminates == SomeStageEnded ~> (Returned /\ AllStagesEnded)

\* C4: execute_pipeline returns Continue from a pipeline of two or more stages
\* on every path, and the shell process goes on, whatever the stages are.
C4_PipelineReturnsContinue ==
  Returned => (ret = Continue /\ shell = Running)

C4_Witness ==
  /\ ppc = "returned"
  /\ path_ = "reaped"
  /\ mpc = "prompt"
  /\ \E i \in DOMAIN proc :
       commands[i].cmd = W_exit /\ proc[i].code = 7 /\ proc[i].st = "reaped"
            /\ i = Len(commands)

(***************************************************************************)
(* Properties of the dispatch of an accepted line.                         *)
(***************************************************************************)
\* The line collected by Enter has been dispatched and has run to its end.
LineDone == lastKey = "enter" /\ mpc \in {"prompt", "ended"} /\ Trim(buffer) # <<>>

DoneLine == Trim(buffer)

\* A decimal integer as a user writes it: an optional sign and digits.
IsIntegerToken(t) ==
  LET ds == IF t # <<>> /\ Head(t) \in {"-", "+"} THEN Tail(t) ELSE t
  IN ds # <<>> /\ \A k \in 1..Len(ds) : IsDigit(ds[k])

\* C5: a line run by the single-command path whose command is exit ends the
\* shell process with the status its integer argument names, and with status 0
\* when the argument is missing or no integer; no other such line ends it by
\* an Exit status.
C5_ExitStatusIsArgument ==
  (LineDone /\ ~Contains(DoneLine, "|")) =>
    LET tokens == tokenize(DoneLine)
    IN IF tokens[1] = W_exit
       THEN /\ shell.st = "ended"
            /\ shell.by = "exit"
            /\ IF Len(tokens) >= 2 /\ IsIntegerToken(tokens[2])
               THEN ParseI32(tokens[2]) = Some(shell.code)
               ELSE shell.code = 0
       ELSE shell.by # "exit"

\* C6: no error path ends the shell process: when the file of a redirection
\* operator cannot be created or opened, no process is launched for the command
\* and the shell goes on to its next prompt.
OpenFailed == \E k \in DOMAIN diag : diag[k].msg = "panicked: cannot open"

C6_OpenFailureIsSurvived ==
  (LineDone /\ OpenFailed) => (runs = <<>> /\ shell.st = "running" /\ mpc = "prompt")

\* C7: no command, run alone or as a stage of a pipeline, is handed one of the
\* six redirection operators among its arguments.
C7_NoRedirectionOperatorInArgs ==
  \A k \in DOMAIN runs : \A a \in DOMAIN runs[k].args : runs[k].args[a] \notin RedirOps

\* C8: the history handed to a builtin is the sequence of the lines accepted so
\* far, the line being executed included.
C8_BuiltinSeesWholeHistory ==
  \A k \in DOMAIN runs : runs[k].builtin => runs[k].history = command_history

(***************************************************************************)
(* Properties of the line editor.                                          *)
(***************************************************************************)
\* The cursor is unset or a valid index into the history.
CursorValid ==
  IsSome(history_index) => Unwrap(history_index) \in 0..(Len(command_history) - 1)

\* After k >= 1 Up keys in a row, the first with the cursor unset, the cursor
\* is max(n-k, 0) and the buffer is that entry.
UpRunLoadsEntry ==
  (upRun >= 1 /\ command_history # <<>>) =>
    LET j == Max(Len(command_history) - upRun, 0)
    IN history_index = Some(j) /\ buffer = command_history[j + 1]

\* What a Down key does to the cursor and the buffer.
DownMoves ==
  (mpc = "keys" /\ lastKey' = "down") =>
    IF history_index = None
    THEN UNCHANGED <<history_index, buffer>>
    ELSE LET j == Unwrap(history_index)
         IN IF j < Len(command_history) - 1
            THEN history_index' = Some(j + 1) /\ buffer' = command_history[j + 2]
            ELSE history_index' = None /\ buffer' = <<>>

\* C9: history navigation within one line collection, for a history of n >= 1
\* lines: k Up keys in a row from an unset cursor leave the cursor at
\* max(n-k, 0) and that entry in the buffer; a Down key moves the cursor from
\* j < n-1 to j+1 and loads that entry, unsets the cursor at n-1 and empties
\* the buffer, and changes nothing when the cursor is unset; the cursor, when
\* set, is a valid index into the history.
C9_HistoryNavigation ==
  [](UpRunLoadsEntry /\ CursorValid) /\ [][DownMoves]_vars

\* The Up key has been pressed past the oldest entry of a history of two lines
\* or more, and the cursor has stayed on the oldest.
C9_Witness ==
  /\ lastKey = "up"
  /\ Len(command_history) >= 2
  /\ upRun > Len(command_history)
  /\ history_index = Some(0)
  /\ buffer = command_history[1]

\* p is a prefix of every candidate.
CommonPrefix(p, cands) == \A k \in DOMAIN cands : StartsWith(cands[k], p)

\* The candidates are two or more and their longest common prefix is buf.
Listable(cands, buf) ==
  /\ Len(cands) >= 2
  /\ CommonPrefix(buf, cands)
  /\ \A k \in DOMAIN Alphabet : ~CommonPrefix(Append(buf, Alphabet[k]), cands)

StrictlySorted(v) == \A k \in 1..(Len(v) - 1) : StrLess(v[k], v[k + 1])

\* The completion memory is armed for the buffer.
Armed == last_was_tab /\ last_tab_buffer = buffer /\ last_tab_matches # <<>>

\* The last key was a Tab that found listable candidates and rang the bell.
AfterArmingTab ==
  lastKey = "tab" /\ term.kind = "bell" /\ Listable(all_commands, buffer)

TabLists ==
  (mpc = "keys" /\ lastKey' = "tab" /\ Listable(all_commands', buffer)) =>
    /\ buffer' = buffer
    /\ StrictlySorted(all_commands')
    /\ IF AfterArmingTab
       THEN /\ term' = Term("list", CrLf \o JoinWith(all_commands, <<" ", " ">>)
                                      \o CrLf \o <<"$", " ">> \o buffer)
            /\ ~Armed'
       ELSE ~Armed =>
              /\ term' = Term("bell", Bell)
              /\ Armed'
              /\ last_tab_matches' = all_commands'
    /\ (lastKey = "tab" /\ term.kind = "list") => term'.kind = "bell"

\* C10: the two-step completion listing.  When the candidates for the buffer
\* are two or more and their longest common prefix is the buffer, a Tab that
\* finds the memory not armed rings the bell, leaves the buffer as it is and
\* remembers the buffer and the candidates; a Tab right after it on the same
\* buffer prints the candidates remembered, sorted and without repetition,
\* leaves the buffer as it is and disarms the memory; a third Tab rings the
\* bell again.
C10_TwoStepListing == [][TabLists]_vars

\* A second Tab has printed the candidates remembered by the first, and they
\* are not the candidates the second Tab found itself.
C10_Witness ==
  /\ lastKey = "tab"
  /\ term.kind = "list"
  /\ Len(last_tab_matches) >= 2
  /\ all_commands # last_tab_matches
  /\ term.text = Listing(last_tab_matches, buffer)

\* C11: any key other than Tab clears the remembered completion state: a Tab
\* prints the candidate listing only if the key read just before it was a Tab.
C11_TabListsOnlyAfterTab ==
  [][(mpc = "keys" /\ lastKey' = "tab" /\ term'.kind = "list") => lastKey = "tab"]_vars

(***************************************************************************)
(* Properties of command resolution.                                       *)
(***************************************************************************)
\* The name is no builtin and no executable on the search path.
Unresolvable(name) == ~IsBuiltin(name) /\ ~get_executable_path(name)

NotFoundReported(name) ==
  \E k \in DOMAIN diag : diag[k] = [msg |-> "command not found", name |-> name]

NothingRunFor(name) == \A k \in DOMAIN runs : runs[k].cmd # name

\* C12: a command name that is neither a builtin nor an executable on the
\* search path, run alone or reached as a stage of a pipeline, is reported as
\* "<name>: command not found", no process is launched for it, and the shell
\* goes on.
C12_UnresolvedIsNotFound ==
  /\ (LineDone /\ ~Contains(DoneLine, "|") /\ Unresolvable(tokenize(DoneLine)[1])) =>
       /\ NotFoundReported(tokenize(DoneLine)[1])
       /\ NothingRunFor(tokenize(DoneLine)[1])
       /\ shell = Running
  /\ (Returned /\ path_ = "launchfail" /\ Unresolvable(commands[Len(pids) + 1].cmd)) =>
       /\ NotFoundReported(commands[Len(pids) + 1].cmd)
       /\ NothingRunFor(commands[Len(pids) + 1].cmd)
       /\ shell = Running

(***************************************************************************)
(* The tokenizer on its own: tokenize (parser.rs 13-82) applied to every   *)
(* line of up to MaxLine characters of TokChars, and applied again to the  *)
(* line made of its tokens, each between single quotes.                    *)
(***************************************************************************)
TokChars == {"a", " ", "'", "\"", "\\", "$", "\n"}

TokLines == UNION { [1..n -> TokChars] : n \in 0..MaxLine }

\* The shell before its first prompt, with a line for the tokenizer.
InitTokenizer ==
  /\ mpc = "prompt"
  /\ shell = Running
  /\ command_history = <<>>
  /\ buffer = <<>>
  /\ raw = FALSE
  /\ runs = <<>>
  /\ diag = <<>>
  /\ InitEditor
  /\ InitPipe
  /\ InitOs
  /\ call = "none"
  /\ callInput \in TokLines
  /\ callOutput = <<>>

\* Each token between single quotes, the results joined by single spaces.
RECURSIVE QuoteAll(_)
QuoteAll(tokens) ==
  IF tokens = <<>> THEN <<>>
  ELSE <<(<<"'">> \o Head(tokens) \o <<"'">>)>> \o QuoteAll(Tail(tokens))

Requoted(tokens) == JoinWith(QuoteAll(tokens), <<" ">>)

\* tokenize(input)
Tokenize ==
  /\ call = "none"
  /\ call' = "tokenize"
  /\ callOutput' = <<tokenize(callInput)>>
  /\ UNCHANGED <<callInput, mpc, shell, command_history, buffer, raw, runs, diag,
                 editorVars, pipeVars>>
  /\ UNCHANGED osVars

\* tokenize of the requoted tokens of the first application
Retokenize ==
  /\ call = "tokenize"
  /\ call' = "retokenize"
  /\ callInput' = Requoted(callOutput[1])
  /\ callOutput' = Append(callOutput, tokenize(Requoted(callOutput[1])))
  /\ UNCHANGED <<mpc, shell, command_history, buffer, raw, runs, diag,
                 editorVars, pipeVars>>
  /\ UNCHANGED osVars

NextTokenizer == Tokenize \/ Retokenize

SpecTokenizer == InitTokenizer /\ [][NextTokenizer]_vars

\* C13 as stated: for every line, tokenizing the line made of its tokens, each
\* between single quotes and joined by single spaces, gives the same tokens,
\* whatever the tokens contain.
C13_RequotingIsIdempotent ==
  call = "retokenize" => callOutput[2] = callOutput[1]

HasQuoteInToken(tokens) == \E k \in DOMAIN tokens : Contains(tokens[k], "'")

\* C13 amended: for every line none of whose tokens contains a single quote,
\* tokenizing the line made of its tokens, each between single quotes and
\* joined by single spaces, gives the same tokens.
C13_RequotingIsIdempotentWithoutQuote ==
  (call = "retokenize" /\ ~HasQuoteInToken(callOutput[1])) =>
    callOutput[2] = callOutput[1]

\* A line whose token holds a backslash and a blank has been tokenized twice.
C13_Witness ==
  /\ call = "retokenize"
  /\ ~HasQuoteInToken(callOutput[1])
  /\ \E k \in DOMAIN callOutput[1] :
       Contains(callOutput[1][k], "\\") /\ Contains(callOutput[1][k], " ")
  /\ callOutput[2] = callOutput[1]

(***************************************************************************)
(* The redirection loop of handle_command on its own (lib.rs 28-69),       *)
(* applied to every list of up to MaxArgs tokens of ArgTokens, with any    *)
(* set of its target files failing to open.                                *)
(***************************************************************************)
ArgTokens == RedirOps \cup {<<"a">>, <<"o">>}

ArgLists == UNION { [1..n -> ArgTokens] : n \in 0..MaxArgs }

\* The shell before its first prompt, with an argument list for handle_command.
InitExtract ==
  /\ mpc = "prompt"
  /\ shell = Running
  /\ command_history = <<>>
  /\ buffer = <<>>
  /\ raw = FALSE
  /\ runs = <<>>
  /\ diag = <<>>
  /\ InitEditor
  /\ InitPipe
  /\ InitOs
  /\ call = "none"
  /\ callInput \in ArgLists
  /\ callOutput = <<>>

\* lines 28-69 of handle_command
ExtractArgs ==
  /\ call = "none"
  /\ call' = "extract"
  /\ \E bad \in SUBSET RedirTargets(callInput) :
       callOutput' = <<Extract(callInput, bad)>>
  /\ UNCHANGED <<callInput, mpc, shell, command_history, buffer, raw, runs, diag,
                 editorVars, pipeVars>>
  /\ UNCHANGED osVars

SpecExtract == InitExtract /\ [][ExtractArgs]_vars

\* Token k of args is read as a redirection operator: it is one of the six
\* operators and is not the file name of the operator before it.
RECURSIVE ReadAsOperator(_, _)
ReadAsOperator(args, k) ==
  /\ args[k] \in RedirOps
  /\ (k = 1 \/ ~ReadAsOperator(args, k - 1))

ReadAsTarget(args, k) == k > 1 /\ ReadAsOperator(args, k - 1)

\* The sequence of the args[k] with k in the set of indices, in order.
RECURSIVE Pick(_, _, _)
Pick(args, indices, k) ==
  IF k > Len(args) THEN <<>>
  ELSE (IF k \in indices THEN <<args[k]>> ELSE <<>>) \o Pick(args, indices, k + 1)

KeptArgs(args) ==
  Pick(args, {k \in DOMAIN args : ~ReadAsOperator(args, k) /\ ~ReadAsTarget(args, k)}, 1)

TargetArgs(args) == Pick(args, {k \in DOMAIN args : ReadAsTarget(args, k)}, 1)

\* C14: the clean argument list of handle_command is the token list without
\* the redirection operators and without the token after each, the other
\* tokens in their order; the files opened are the tokens after the operators,
\* so an operator that is the last token is dropped and opens nothing.
C14_CleanArgsAreTheOtherTokens ==
  (call = "extract" /\ ~callOutput[1].panic) =>
    /\ callOutput[1].clean_args = KeptArgs(callInput)
    /\ callOutput[1].opened = TargetArgs(callInput)

\* An argument list of a plain token, an operator and a second operator, which
\* is read as the file name of the first, has gone through the loop.
C14_Witness ==
  /\ call = "extract"
  /\ Len(callInput) = 3
  /\ callInput[1] \notin RedirOps
  /\ callInput[2] \in RedirOps
  /\ callInput[3] \in RedirOps
  /\ callOutput[1].clean_args = <<callInput[1]>>
  /\ callOutput[1].opened = <<callInput[3]>>

(***************************************************************************)
(* Properties of the failure paths of execute_pipeline.                    *)
(***************************************************************************)
\* C15: when the launch of stage i fails, no stage launched before it is left
\* running (each was sent a kill), the shell holds no pipe end, no stage
\* after i is launched, and execute_pipeline returns Continue without a
\* single wait.
C15_LaunchFailureTearsDown ==
  (Returned /\ path_ = "launchfail") =>
    /\ \A j \in 1..Len(pids) : proc[j].st \in {"killed", "exited"}
    /\ \A j \in (Len(pids) + 1)..Len(commands) : proc[j].st = "none"
    /\ Len(runs) = Len(pids)
    /\ parentFds = {}
    /\ ret = Continue
    /\ waited = 0

\* The second of three stages has failed to launch while the first ran.
C15_Witness ==
  /\ ppc = "return"
  /\ path_ = "launchfail"
  /\ Len(commands) = 3
  /\ Len(pids) = 1
  /\ proc[1].st = "killed"
  /\ proc[3].st = "none"

\* C16: when the creation of pipe k fails, both ends of the pipes created
\* before it are closed, no stage is launched, and execute_pipeline returns
\* Continue.
C16_PipeFailureLaunchesNothing ==
  (Returned /\ path_ = "pipefail") =>
    /\ parentFds = {}
    /\ pids = <<>>
    /\ runs = <<>>
    /\ \A j \in DOMAIN proc : proc[j].st = "none"
    /\ ret = Continue

\* The second pipe of a pipeline has failed after the first was created.
C16_Witness ==
  /\ ppc = "return"
  /\ path_ = "pipefail"
  /\ pipes = 1
  /\ Len(commands) >= 3

\* The line has a segment, between two '|', before the first or after the
\* last, that is empty or all whitespace.
HasBlankSegment(line) ==
  LET parts == Split(line, "|")
  IN \E k \in DOMAIN parts : \A c \in DOMAIN parts[k] : parts[k][c] \in Whitespace

\* C17: a pipeline line with an empty or all-whitespace segment is aborted
\* before anything is created: no pipe, no process, not even for its other
\* segments, and the result is Continue.
C17_BlankSegmentAborts ==
  (mpc # "collected" /\ Contains(buffer, "|") /\ HasBlankSegment(buffer)) =>
    /\ Returned
    /\ ret = Continue
    /\ pipes = 0
    /\ parentFds = {}
    /\ pids = <<>>
    /\ runs = <<>>
    /\ \A j \in DOMAIN proc : proc[j].st = "none"

\* A line of three segments, the middle one blank and the others commands, has
\* been dispatched and execute_pipeline has returned.
C17_Witness ==
  /\ ppc = "returned"
  /\ mpc = "prompt"
  /\ LET parts == MapTrim(Split(buffer, "|"))
     IN Len(parts) = 3 /\ parts[1] # <<>> /\ parts[2] = <<>> /\ parts[3] # <<>>
  /\ pipes = 0
  /\ runs = <<>>

(***************************************************************************)
(* Properties of line acceptance.                                          *)
(***************************************************************************)
\* The step that takes a collected line on: main.rs 227-256.
LineTaken == mpc = "collected" /\ mpc' # "collected"

\* What the step does to the history log, by the key that ended the collection.
AcceptsLine ==
  LineTaken =>
    IF lastKey = "enter" /\ Trim(buffer) # <<>>
    THEN /\ command_history' = Append(command_history, Trim(buffer))
         /\ \A k \in DOMAIN runs' :
              runs'[k].via = "call" => runs'[k].history = command_history'
    ELSE (lastKey = "ctrl-c" \/ lastKey = "enter") =>
           /\ command_history' = command_history
           /\ runs' = <<>>
           /\ diag' = <<>>
           /\ mpc' = "prompt"

\* The log changes in no other step, and by one entry at its end.
OnlyExtended ==
  command_history' # command_history =>
    /\ LineTaken
    /\ Len(command_history') = Len(command_history) + 1
    /\ SubSeq(command_history', 1, Len(command_history)) = command_history

NoEmptyEntry == \A k \in DOMAIN command_history : command_history[k] # <<>>

\* C18: a collection ended by Enter with a buffer that is not empty after
\* trimming appends the trimmed line to the history log once, before the line
\* is run; one ended by Ctrl-C, or by Enter with an empty or blank buffer,
\* runs nothing and leaves the log as it was.  The log never holds an empty
\* entry and only ever grows at its end.
C18_HistoryLogGrowsByAcceptedLines ==
  [][AcceptsLine /\ OnlyExtended]_vars /\ []NoEmptyEntry

\* A second line, typed with blanks around it, has been accepted after a first.
C18_Witness ==
  /\ Len(command_history) = 2
  /\ lastKey = "enter"
  /\ mpc = "prompt"
  /\ buffer # Trim(buffer)
  /\ command_history[2] = Trim(buffer)

(***************************************************************************)
(* The quoting rules, written as a reader of the line applies them: a line *)
(* is words between runs of whitespace, a word is a run of adjacent        *)
(* segments, and a segment is a single-quoted text, a double-quoted text,  *)
(* an escaped character or a plain character.  Each operator gives the     *)
(* text read and the position after it.                                    *)
(***************************************************************************)
RuleEscapes == {"\\", "$", "\"", "\n"}

\* between single quotes, from position i: all up to the next single quote
RECURSIVE RuleSingle(_, _)
RuleSingle(s, i) ==
  IF i > Len(s) THEN [text |-> <<>>, next |-> i]
  ELSE IF s[i] = "'" THEN [text |-> <<>>, next |-> i + 1]
  ELSE LET rest == RuleSingle(s, i + 1)
       IN [text |-> <<s[i]>> \o rest.text, next |-> rest.next]

\* between double quotes, from position i
RECURSIVE RuleDouble(_, _)
RuleDouble(s, i) ==
  IF i > Len(s) THEN [text |-> <<>>, next |-> i]
  ELSE IF s[i] = "\"" THEN [text |-> <<>>, next |-> i + 1]
  ELSE IF s[i] = "\\" /\ i < Len(s) /\ s[i + 1] \in RuleEscapes
  THEN LET rest == RuleDouble(s, i + 2)
       IN [text |-> <<s[i + 1]>> \o rest.text, next |-> rest.next]
  ELSE LET rest == RuleDouble(s, i + 1)
       IN [text |-> <<s[i]>> \o rest.text, next |-> rest.next]

\* the segment that starts at position i, which holds no whitespace
RuleSegment(s, i) ==
  IF s[i] = "'" THEN RuleSingle(s, i + 1)
  ELSE IF s[i] = "\"" THEN RuleDouble(s, i + 1)
  ELSE IF s[i] = "\\"
  THEN IF i < Len(s) THEN [text |-> <<s[i + 1]>>, next |-> i + 2]
       ELSE [text |-> <<>>, next |-> i + 1]
  ELSE [text |-> <<s[i]>>, next |-> i + 1]

\* the word that starts at position i: its segments up to whitespace or the end
RECURSIVE RuleWord(_, _)
RuleWord(s, i) ==
  IF i > Len(s) \/ s[i] \in Whitespace THEN [text |-> <<>>, next |-> i]
  ELSE LET seg == RuleSegment(s, i)
           rest == RuleWord(s, seg.next)
       IN [text |-> seg.text \o rest.text, next |-> rest.next]

RECURSIVE RuleWords(_, _)
RuleWords(s, i) ==
  IF i > Len(s) THEN <<>>
  ELSE IF s[i] \in Whitespace THEN RuleWords(s, i + 1)
  ELSE LET word == RuleWord(s, i)
       IN <<word.text>> \o RuleWords(s, word.next)

\* C19: the tokens of every line are its words by the quoting rules: between
\* double quotes a backslash before a backslash, $, double quote or newline
\* gives that character alone, and before any other character the backslash
\* and the character; between single quotes all is literal up to the next
\* single quote; outside quotes a backslash gives the next character; adjacent
\* segments make one token; a quote left open runs to the end of the line.
C19_TokensFollowQuotingRules ==
  call \in {"tokenize", "retokenize"} =>
    callOutput[Len(callOutput)] = RuleWords(callInput, 1)

\* A line of a plain character next to an open double quote holding a
\* backslash before a plain character has been tokenized into one token.
C19_Witness ==
  /\ call = "tokenize"
  /\ callInput = <<"a", "\"", "\\", "a">>
  /\ callOutput[1] = << <<"a", "\\", "a">> >>

(***************************************************************************)
(* The order of the operations of execute_pipeline.                        *)
(***************************************************************************)
PipeMade == pipes' > pipes

StageLaunched == Len(pids') > Len(pids)

\* The shell closes a pipe end it held, on a path that is not a failure path.
ParentCloses ==
  /\ ~(parentFds \subseteq parentFds')
  /\ path_' \notin {"pipefail", "launchfail"}

WaitMade == waited' > waited

\* Every pipe is made before the first stage is launched, and the stages are
\* launched in index order.
PipesThenStagesInOrder ==
  /\ PipeMade => (pids = <<>> /\ pipes' = pipes + 1)
  /\ StageLaunched =>
       /\ pipes = Len(commands) - 1
       /\ pids' = Append(pids, Len(pids) + 1)
       /\ proc'[Len(pids) + 1].st = "running"

\* The waits come after the closes, one stage at a time in launch order, each
\* for a stage that has ended, whatever the result of the waits before.
WaitsInLaunchOrder ==
  WaitMade =>
    /\ parentFds = {}
    /\ Len(pids) = Len(commands)
    /\ waited' = waited + 1
    /\ proc[waited + 1].st = "exited"
    /\ \A j \in DOMAIN proc : j # waited + 1 => proc'[j] = proc[j]

AllWaitsMade == (Returned /\ path_ = "reaped") => waited = Len(commands)

\* C20 as stated: in a pipeline of two or more stages all the pipes are made
\* before any stage is launched, the stages are launched in index order, the
\* shell closes its pipe ends only after the last stage is launched and
\* before its first wait, and it then waits for the stages in launch order,
\* a failed wait not stopping the later ones.
C20_OperationsInOrder ==
  /\ [][/\ PipesThenStagesInOrder
        /\ ParentCloses => (Len(pids) = Len(commands) /\ waited = 0)
        /\ WaitsInLaunchOrder]_vars
  /\ []AllWaitsMade

\* C20 amended: as stated, except that the shell closes the two pipe ends of
\* a stage in the step that launches the stage, so that it holds none once
\* the last stage is launched and none at its first wait.
C20_OperationsInOrderClosingHandedEnds ==
  /\ [][/\ PipesThenStagesInOrder
        /\ ParentCloses =>
             /\ StageLaunched
             /\ parentFds \ parentFds' = OwnEnds(Len(pids) + 1)
        /\ WaitsInLaunchOrder]_vars
  /\ [](AllWaitsMade /\ (Len(pids) = Len(commands) => parentFds = {}))

\* A pipeline of three stages has been waited for to its end, the wait for
\* the first stage having failed and the wait for the last succeeded.
C20_Witness ==
  /\ ppc = "return"
  /\ path_ = "reaped"
  /\ Len(commands) = 3
  /\ waited = 3
  /\ proc[1].st = "exited"
  /\ proc[3].st = "reaped"
  /\ parentFds = {}

(***************************************************************************)
(* Properties of the stages of a pipeline.                                 *)
(***************************************************************************)
\* C21: stage wiring in a pipeline of two or more stages.  Stage k (from 1)
\* reads the read end of pipe k-1, the first stage the caller's stdin; it
\* writes the write end of pipe k, the last stage the caller's stdout; its
\* stderr is the caller's.  Builtin and external stages are wired alike.
C21_StagesAreWiredInAChain ==
  mpc = "pipeline" =>
    \A k \in DOMAIN runs :
      /\ runs[k].cmd = commands[k].cmd
      /\ runs[k].stdin = IF k = 1 THEN NoFd ELSE [pipe |-> k - 1, end |-> "r"]
      /\ runs[k].stdout = IF k = Len(commands) THEN NoFd
                          ELSE [pipe |-> k, end |-> "w"]
      /\ runs[k].stderr = NoFd

\* Three stages are launched, a builtin and an external program among them.
C21_Witness ==
  /\ mpc = "pipeline"
  /\ Len(runs) = 3
  /\ \E k \in DOMAIN runs : runs[k].builtin
  /\ \E k \in DOMAIN runs : ~runs[k].builtin

(***************************************************************************)
(* C22.                                                                    *)
(***************************************************************************)
\* What the stage at place k of the pipeline was launched as.
ForkedBuiltin(k) ==
  LET status == BuiltinExecute(runs[k].cmd, runs[k].args, TRUE)
  IN /\ runs[k].via = "fork"
     /\ proc[k].st \in {"running", "exited", "reaped", "killed"}
     /\ proc[k].io.stdin = (IF k = 1 THEN parent.stdin ELSE R(k - 1))
     /\ proc[k].io.stdout = (IF k = Len(commands) THEN parent.stdout ELSE Wr(k))
     /\ proc[k].code = (IF status.kind = "Exit" THEN status.code ELSE 0)

\* C22: a builtin stage of a pipeline runs in a forked child only.  While a
\* pipeline of two or more stages runs, every builtin stage launched is a
\* forked process whose stdin and stdout are the pipe ends assigned to it
\* (those of the shell at the two ends of the pipeline), which is running or
\* has ended, and whose exit status is the code of the builtin's Exit, or 0
\* when the builtin returns Continue; and the shell itself still runs, with the
\* terminal as its stdin and stdout and the working directory it had before
\* the pipeline, whatever the builtin (exit, cd) did in the child.
C22_BuiltinStageRunsInForkedChild ==
  (mpc = "pipeline" /\ Len(commands) >= 2) =>
    /\ shell = Running
    /\ parent = ParentStart
    /\ \A k \in DOMAIN runs : runs[k].builtin => ForkedBuiltin(k)

\* A pipeline with an exit 7 stage reading from a pipe, whose child has the
\* status 7, and a cd stage whose child has ended in another working
\* directory than the shell.
C22_Witness ==
  /\ mpc = "pipeline"
  /\ \E j, k \in DOMAIN runs :
       /\ j > 1
       /\ runs[j].cmd = W_exit
       /\ proc[j].code = 7
       /\ runs[k].cmd = W_cd
       /\ proc[k].st = "exited"
       /\ proc[k].io.cwd # parent.cwd

(***************************************************************************)
(* C23.                                                                    *)
(***************************************************************************)
\* C23: the shell closes each pipe descriptor exactly once.  On no path of
\* execute_pipeline does the shell call close on a pipe end it has closed
\* already or has given away to a Stdio, and once execute_pipeline has
\* returned it holds no pipe end.
C23_EachPipeEndClosedOnce ==
  /\ reclosed = {}
  /\ Returned => parentFds = {}

(***************************************************************************)
(* C24.                                                                    *)
(***************************************************************************)
SomeChildRuns == \E i \in DOMAIN proc : proc[i].st = "running"

\* C24: raw mode is scoped to one line collection.  The terminal is in raw
\* mode while the keys of a line are read; it is not in raw mode before the
\* prompt, while a pipeline runs, once the shell has ended (by exit, Ctrl-D on
\* an empty buffer, a write error or a panic), once a command has been run for
\* the line, or while a child process runs.
C24_RawModeIsScoped ==
  /\ mpc = "keys" => raw
  /\ mpc \in {"prompt", "pipeline", "ended"} => ~raw
  /\ (runs # <<>> \/ SomeChildRuns) => ~raw

\* The second line of a session is a pipeline with a stage running, the
\* terminal out of the raw mode its collection was in.
C24_Witness ==
  /\ Len(command_history) = 2
  /\ mpc = "pipeline"
  /\ SomeChildRuns
  /\ ~raw

(***************************************************************************)
(* C25.                                                                    *)
(***************************************************************************)
\* C25: the history cursor and the buffer agree.  At every point of a line
\* collection, after any keys, a cursor that is set names the history entry
\* the buffer holds.
C25_CursorNamesTheBuffer ==
  (mpc = "keys" /\ IsSome(history_index)) =>
    /\ Unwrap(history_index) + 1 \in DOMAIN command_history
    /\ buffer = command_history[Unwrap(history_index) + 1]

(***************************************************************************)
(* C26.                                                                    *)
(***************************************************************************)
\* The number of '|' of s from place i on that are neither between quotes nor
\* after a backslash, read with the quoting rules of the tokenizer; mode is
\* "plain", "sq" or "dq".
RECURSIVE UnquotedBars(_, _, _)
UnquotedBars(s, i, mode) ==
  IF i > Len(s) THEN 0
  ELSE IF mode = "sq" THEN UnquotedBars(s, i + 1, IF s[i] = "'" THEN "plain" ELSE "sq")
  ELSE IF mode = "dq" THEN
    IF s[i] = "\\" /\ i + 1 <= Len(s) /\ s[i + 1] \in DqEscapable
    THEN UnquotedBars(s, i + 2, "dq")
    ELSE UnquotedBars(s, i + 1, IF s[i] = "\"" THEN "plain" ELSE "dq")
  ELSE IF s[i] = "\\" THEN UnquotedBars(s, i + 2, "plain")
  ELSE IF s[i] = "'" THEN UnquotedBars(s, i + 1, "sq")
  ELSE IF s[i] = "\"" THEN UnquotedBars(s, i + 1, "dq")
  ELSE (IF s[i] = "|" THEN 1 ELSE 0) + UnquotedBars(s, i + 1, "plain")

\* The line entered has been handed to handle_command or to execute_pipeline.
EnteredLineRun ==
  /\ lastKey = "enter"
  /\ mpc \in {"prompt", "pipeline", "ended"}
  /\ Trim(buffer) # <<>>

\* C26: a '|' between quotes or after a backslash is argument text, not a
\* pipeline separator.  Once a line has been entered and run: if it has a '|'
\* and none outside quotes and escapes, it is not run as a pipeline but as one
\* command, whose arguments hold the '|'; and if it is run as a pipeline, its
\* stages are one more than its '|' outside quotes and escapes.
C26_QuotedBarIsNoSeparator ==
  EnteredLineRun =>
    LET line == Trim(buffer)
    IN /\ (Contains(line, "|") /\ UnquotedBars(line, 1, "plain") = 0) =>
            /\ mpc # "pipeline"
            /\ ppc = "idle"
            /\ Len(runs) = 1
            /\ runs[1].cmd = tokenize(line)[1]
            /\ \E a \in DOMAIN runs[1].args : Contains(runs[1].args[a], "|")
       /\ (mpc = "pipeline" /\ commands # <<>>) =>
            Len(commands) = UnquotedBars(line, 1, "plain") + 1

====
